---- MODULE Spec2Model ----
(***************************************************************************)
(* A model of the kong_bot_backend canister: the simulated trading ledger  *)
(* (trading.rs) and the price alert registry and sweep (alerts.rs).        *)
(*                                                                         *)
(* Both modules keep their whole state in the canister's one stable        *)
(* memory: every handler restores what it needs from it, works on a local  *)
(* copy and saves the copy back.  The only suspension point of a handler   *)
(* is the HTTP outcall of get_crypto_price.                                *)
(*                                                                         *)
(* Numbers.  f64 amounts are modelled as exact integers in fixed-point     *)
(* units: coin amounts are counted in units of half an epsilon (5e-7       *)
(* coin, so that 0.000001 is 2), USD amounts in units of 1250 USD (so that *)
(* 10000.0 is 8), and a price is a number of USD units per coin unit.  The *)
(* inputs are chosen so that every quotient amount_usd / price is exact.   *)
(*                                                                         *)
(* Strings are sequences of one-character strings, so that to_lowercase    *)
(* and format!("{}_{}") are computed character by character.               *)
(***************************************************************************)
EXTENDS Integers, Sequences, FiniteSets, TLC

VARIABLES
    stable,   \* the canister's stable memory: the value last saved there
    calls,    \* the update calls suspended at their price fetch, by slot
    reply,    \* what the latest step returned to its caller, if anything
    sent      \* the messages the latest step handed to
              \* send_openchat_message, in order

vars == <<stable, calls, reply, sent>>

----------------------------------------------------------------------------
(* Bounds of the model *)

\* transactions recorded, over all portfolios
MaxTx == 2
\* update calls that may be suspended at once
MaxCalls == 2
\* alerts registered at once
MaxAlerts == 2

----------------------------------------------------------------------------
(* Program constants, in the model's fixed-point units *)

\* trading.rs:96, initial_balance.unwrap_or(10000.0)
DefaultBalance == 8
\* trading.rs:239, *holding < 0.000001
Epsilon == 2

----------------------------------------------------------------------------
(* Strings *)

Str_btc == <<"b", "t", "c">>
Str_eth == <<"e", "t", "h">>
Str_icp == <<"i", "c", "p">>
Str_sol == <<"s", "o", "l">>
Str_ada == <<"a", "d", "a">>
Str_dot == <<"d", "o", "t">>
Str_bnb == <<"b", "n", "b">>
Str_xrp == <<"x", "r", "p">>
Str_doge == <<"d", "o", "g", "e">>
Str_shib == <<"s", "h", "i", "b">>
Str_bitcoin == <<"b", "i", "t", "c", "o", "i", "n">>
Str_ethereum == <<"e", "t", "h", "e", "r", "e", "u", "m">>
Str_internet_computer ==
    <<"i", "n", "t", "e", "r", "n", "e", "t", "-", "c", "o", "m", "p", "u", "t", "e", "r">>
Str_solana == <<"s", "o", "l", "a", "n", "a">>
Str_cardano == <<"c", "a", "r", "d", "a", "n", "o">>
Str_polkadot == <<"p", "o", "l", "k", "a", "d", "o", "t">>
Str_binancecoin == <<"b", "i", "n", "a", "n", "c", "e", "c", "o", "i", "n">>
Str_ripple == <<"r", "i", "p", "p", "l", "e">>
Str_dogecoin == <<"d", "o", "g", "e", "c", "o", "i", "n">>
Str_shiba_inu == <<"s", "h", "i", "b", "a", "-", "i", "n", "u">>

\* char::to_lowercase on the letters the inputs use; other characters map to
\* themselves
LowerChar(c) ==
    CASE c = "A" -> "a"
      [] c = "B" -> "b"
      [] c = "C" -> "c"
      [] c = "D" -> "d"
      [] c = "E" -> "e"
      [] c = "H" -> "h"
      [] c = "I" -> "i"
      [] c = "L" -> "l"
      [] c = "O" -> "o"
      [] c = "P" -> "p"
      [] c = "S" -> "s"
      [] c = "T" -> "t"
      [] c = "X" -> "x"
      [] c = "Y" -> "y"
      [] OTHER -> c

\* str::to_lowercase
to_lowercase(s) == [i \in 1..Len(s) |-> LowerChar(s[i])]

\* trading.rs normalize_coin_id: lower-case, then the alias table
normalize_coin_id(coin_id) ==
    LET lower == to_lowercase(coin_id) IN
    CASE lower = Str_btc -> Str_bitcoin
      [] lower = Str_eth -> Str_ethereum
      [] lower = Str_icp -> Str_internet_computer
      [] lower = Str_sol -> Str_solana
      [] lower = Str_ada -> Str_cardano
      [] lower = Str_dot -> Str_polkadot
      [] lower = Str_bnb -> Str_binancecoin
      [] lower = Str_xrp -> Str_ripple
      [] lower = Str_doge -> Str_dogecoin
      [] lower = Str_shib -> Str_shiba_inu
      [] OTHER -> lower

----------------------------------------------------------------------------
(* Inputs *)

Users == {<<"a">>, <<"b">>}

\* coin identifiers a caller passes to buy and sell: an alias in upper case
\* and an unmapped identifier with an upper-case letter
LedgerCoins == {<<"B", "T", "C">>, <<"X", "y">>}

\* Option<T>: None is the empty tuple, Some(x) the tuple of x
None == <<>>

Some(x) == <<x>>

\* Option::unwrap_or
unwrap_or(opt, default) == IF opt = None THEN default ELSE opt[1]

\* Result<f64, String> of a price fetch
PriceOk(price) == <<"Ok", price>>

PriceErr == <<"Err">>

\* initial_balance: Option<f64>
InitialBalances == {None, Some(-2), Some(4)}

\* amount_usd: every one a multiple of every price
UsdAmounts == {0, 4}

\* crypto_amount
CryptoAmounts == {0, 1, 2}

\* coin identifiers a caller passes to set_alert: an alias both tables hold,
\* an alias only normalize_coin_id holds, an unmapped identifier with an
\* upper-case letter
AlertCoins == {Str_btc, Str_ada, <<"X", "y">>}

\* users and coin identifiers a caller passes to set_alert, some with the
\* separator of the alert key in them
KeyUsers == Users \cup {<<"a", "_", "b">>}

KeyCoins == {Str_btc, <<"c">>, <<"b", "_", "c">>}

\* target_price
Targets == {1, 2}

\* what get_crypto_price returns on success
Prices == {1, 4}

\* every outcome of get_crypto_price(..).await
FetchResults == {PriceOk(p) : p \in Prices} \cup {PriceErr}

\* every outcome of stable_save
SaveResults == {"Ok", "Err"}

----------------------------------------------------------------------------
(* Stable memory *)

EmptyMap == [k \in {} |-> 0]

\* memory whose bytes decode as neither tuple: never written, or holding the
\* header of one tuple and the body of the other
Undecodable ==
    [kind |-> "none", portfolios |-> EmptyMap, alerts |-> EmptyMap, prices |-> EmptyMap]

\* memory last written by save_portfolios: the one-tuple (Portfolios,)
PortfoliosMem(portfolios) ==
    [kind |-> "portfolios", portfolios |-> portfolios,
     alerts |-> EmptyMap, prices |-> EmptyMap]

\* memory last written by save_state or init: the pair (Alerts, PriceMap)
AlertsMem(alerts, prices) ==
    [kind |-> "alerts", portfolios |-> EmptyMap, alerts |-> alerts, prices |-> prices]

\* trading.rs load_portfolios: stable_restore::<(Portfolios,)>(), an empty
\* map when the bytes do not decode as that type
load_portfolios(mem) ==
    IF mem.kind = "portfolios" THEN mem.portfolios ELSE EmptyMap

\* alerts.rs load_alerts: stable_restore::<(Alerts, PriceMap)>(), first part
load_alerts(mem) ==
    IF mem.kind = "alerts" THEN mem.alerts ELSE EmptyMap

\* alerts.rs load_price_history: the same restore, second part
load_price_history(mem) ==
    IF mem.kind = "alerts" THEN mem.prices ELSE EmptyMap

\* What stable memory may hold after stable_save(value) returned Err: the
\* writer could not grow the memory.  Bytes already written stay written:
\* the memory is as it was, or, when it held a tuple of the other type,
\* it holds the new header before the old body.
FailedSave(mem, value) ==
    {mem} \cup (IF mem.kind # value.kind THEN {Undecodable} ELSE {})

\* stable memory after stable_save(value) with the given result
Saved(mem, value, saved) ==
    IF saved = "Ok" THEN {value} ELSE FailedSave(mem, value)

----------------------------------------------------------------------------
(* Calls and replies *)

Slots == 1..MaxCalls

Idle == [op |-> "idle"]

\* what a handler returned: the call (op, user, coin, amount), the result,
\* and a value: what a query returned (a tuple of one), or the
\* initial_balance initialize_portfolio was called with
Reply(op, user, coin, amount, result, value) ==
    [op |-> op, user |-> user, coin |-> coin, amount |-> amount,
     result |-> result, value |-> value]

\* the latest step returned nothing: its handler is suspended at an await
NoReply == Reply("none", <<>>, <<>>, 0, "none", <<>>)

\* the response field of a suspended call whose outcall has not returned
Pending == <<>>

\* get_crypto_price, trading.rs lines 338-387 and alerts.rs lines 351-400:
\* the outcall of a suspended call returns, with a price or with an error
http_response(slot, fetched) ==
    /\ calls[slot] # Idle
    /\ calls[slot].response = Pending
    /\ calls' = [calls EXCEPT ![slot].response = fetched]
    /\ reply' = NoReply
    /\ sent' = <<>>
    /\ UNCHANGED stable

----------------------------------------------------------------------------
(* trading.rs: the ledger *)

\* NewPortfolio with the caller's balance dropped for the default one
NewPortfolio_default_only(balance) ==
    [usd_balance |-> DefaultBalance, holdings |-> EmptyMap, transactions |-> <<>>]

\* Portfolio { usd_balance, holdings, transactions } as initialize_portfolio
\* builds it
NewPortfolio(balance) ==
    [usd_balance |-> balance, holdings |-> EmptyMap, transactions |-> <<>>]

\* Transaction { transaction_type, coin_id, amount, price, total_value };
\* the timestamp (api::time()) is left out: nothing reads it
Transaction(type, coin_id, amount, price, total_value) ==
    [transaction_type |-> type, coin_id |-> coin_id, amount |-> amount,
     price |-> price, total_value |-> total_value]

\* the transactions recorded in all portfolios together
RECURSIVE Recorded(_)
Recorded(portfolios) ==
    IF DOMAIN portfolios = {} THEN 0
    ELSE LET user == CHOOSE u \in DOMAIN portfolios : TRUE IN
         Len(portfolios[user].transactions)
         + Recorded([u \in DOMAIN portfolios \ {user} |-> portfolios[u]])

\* HashMap::insert
Insert(map, key, value) ==
    [k \in DOMAIN map \cup {key} |-> IF k = key THEN value ELSE map[k]]

\* HashMap::remove
Remove(map, key) == [k \in DOMAIN map \ {key} |-> map[k]]

\* map.get(key).cloned().unwrap_or(default)
GetOr(map, key, default) == IF key \in DOMAIN map THEN map[key] ELSE default

\* initialize_portfolio, lines 89-110: no await, one step
initialize_portfolio(user_id, initial_balance, saved) ==
    LET portfolios == load_portfolios(stable) IN
    /\ sent' = <<>> /\ UNCHANGED calls
    /\ IF user_id \in DOMAIN portfolios
       THEN /\ reply' = Reply("initialize_portfolio", user_id, <<>>, 0,
                              "AlreadyExists", initial_balance)
            /\ UNCHANGED stable
       ELSE LET balance == unwrap_or(initial_balance, DefaultBalance)
                inserted == Insert(portfolios, user_id, NewPortfolio(balance))
            IN /\ stable' \in Saved(stable, PortfoliosMem(inserted), saved)
               /\ reply' = Reply("initialize_portfolio", user_id, <<>>, 0,
                                 IF saved = "Ok" THEN "Ok" ELSE "PersistFailed",
                                 initial_balance)

\* get_portfolio, lines 120-126: a query
get_portfolio(user_id) ==
    LET portfolios == load_portfolios(stable) IN
    /\ reply' = IF user_id \in DOMAIN portfolios
                THEN Reply("get_portfolio", user_id, <<>>, 0, "Ok",
                           <<portfolios[user_id]>>)
                ELSE Reply("get_portfolio", user_id, <<>>, 0, "NotFound", <<>>)
    /\ sent' = <<>> /\ UNCHANGED <<stable, calls>>

\* buy_rejection with the amount check written < 0.0: a zero amount passes
buy_rejection_allows_zero(portfolios, user_id, amount_usd) ==
    IF amount_usd < 0 THEN "InvalidAmount"
    ELSE IF user_id \notin DOMAIN portfolios THEN "NotFound"
    ELSE IF portfolios[user_id].usd_balance < amount_usd THEN "InsufficientFunds"
    ELSE "None"

\* buy_cryptocurrency, lines 139-155: the checks before the price fetch,
\* "None" when the buy passes them all
buy_rejection(portfolios, user_id, amount_usd) ==
    IF amount_usd <= 0 THEN "InvalidAmount"
    ELSE IF user_id \notin DOMAIN portfolios THEN "NotFound"
    ELSE IF portfolios[user_id].usd_balance < amount_usd THEN "InsufficientFunds"
    ELSE "None"

\* buy_cryptocurrency, lines 138-160: from the call to the await of the
\* price fetch.  The loaded portfolios stay in the suspended call.
buy_cryptocurrency(slot, user_id, coin_id, amount_usd) ==
    LET portfolios == load_portfolios(stable)
        rejection == buy_rejection(portfolios, user_id, amount_usd)
    IN
    /\ calls[slot] = Idle
    /\ IF rejection # "None"
       THEN /\ reply' = Reply("buy", user_id, coin_id, amount_usd, rejection, <<>>)
            /\ sent' = <<>> /\ UNCHANGED <<stable, calls>>
       ELSE /\ Recorded(portfolios) < MaxTx
            /\ calls' = [calls EXCEPT ![slot] =
                    [op |-> "buy", user_id |-> user_id, coin_id |-> coin_id,
                     amount |-> amount_usd, portfolios |-> portfolios,
                     normalized_id |-> normalize_coin_id(coin_id),
                     response |-> Pending]]
            /\ reply' = NoReply
            /\ sent' = <<>> /\ UNCHANGED stable

\* lines 163-180: the portfolio after a buy at the fetched price
Bought(portfolio, normalized_id, amount_usd, price) ==
    LET crypto_amount == amount_usd \div price IN
    [usd_balance |-> portfolio.usd_balance - amount_usd,
     holdings |-> Insert(portfolio.holdings, normalized_id,
                         GetOr(portfolio.holdings, normalized_id, 0) + crypto_amount),
     transactions |-> Append(portfolio.transactions,
                             Transaction("Buy", normalized_id, crypto_amount, price,
                                         amount_usd))]

\* buy_cryptocurrency_resume with the balance debited and saved before the
\* match on the fetch result, so that a failed fetch leaves it debited
buy_cryptocurrency_resume_debits_first(slot, saved) ==
    LET call == calls[slot]
        debited == [call.portfolios EXCEPT ![call.user_id].usd_balance =
                       @ - call.amount]
    IN
    /\ call.op = "buy"
    /\ call.response # Pending
    /\ calls' = [calls EXCEPT ![slot] = Idle]
    /\ sent' = <<>>
    /\ stable' = PortfoliosMem(debited)
    /\ reply' = Reply("buy", call.user_id, call.coin_id, call.amount,
                      IF call.response = PriceErr THEN "PriceFetchFailed" ELSE "Ok",
                      <<>>)

\* buy_cryptocurrency, lines 160-190: the price fetch returned
buy_cryptocurrency_resume(slot, saved) ==
    LET call == calls[slot] IN
    /\ call.op = "buy"
    /\ call.response # Pending
    /\ calls' = [calls EXCEPT ![slot] = Idle]
    /\ sent' = <<>>
    /\ IF call.response = PriceErr
       THEN /\ reply' = Reply("buy", call.user_id, call.coin_id, call.amount,
                              "PriceFetchFailed", <<>>)
            /\ UNCHANGED stable
       ELSE LET price == call.response[2]
                portfolios == [call.portfolios EXCEPT ![call.user_id] =
                                  Bought(@, call.normalized_id, call.amount, price)]
            IN /\ stable' \in Saved(stable, PortfoliosMem(portfolios), saved)
               /\ reply' = Reply("buy", call.user_id, call.coin_id, call.amount,
                                 IF saved = "Ok" THEN "Ok" ELSE "PersistFailed", <<>>)


\* sell_cryptocurrency, lines 204-224: the checks before the price fetch,
\* "None" when the sell passes them all
sell_rejection(portfolios, user_id, normalized_id, crypto_amount) ==
    IF crypto_amount <= 0 THEN "InvalidAmount"
    ELSE IF user_id \notin DOMAIN portfolios THEN "NotFound"
    ELSE IF GetOr(portfolios[user_id].holdings, normalized_id, 0) < crypto_amount
    THEN "InsufficientHoldings"
    ELSE "None"

\* sell_cryptocurrency, lines 203-227: from the call to the await of the
\* price fetch
sell_cryptocurrency(slot, user_id, coin_id, crypto_amount) ==
    LET portfolios == load_portfolios(stable)
        normalized_id == normalize_coin_id(coin_id)
        rejection == sell_rejection(portfolios, user_id, normalized_id, crypto_amount)
    IN
    /\ calls[slot] = Idle
    /\ IF rejection # "None"
       THEN /\ reply' = Reply("sell", user_id, coin_id, crypto_amount, rejection, <<>>)
            /\ sent' = <<>> /\ UNCHANGED <<stable, calls>>
       ELSE /\ Recorded(portfolios) < MaxTx
            /\ calls' = [calls EXCEPT ![slot] =
                    [op |-> "sell", user_id |-> user_id, coin_id |-> coin_id,
                     amount |-> crypto_amount, portfolios |-> portfolios,
                     normalized_id |-> normalized_id, response |-> Pending]]
            /\ reply' = NoReply
            /\ sent' = <<>> /\ UNCHANGED stable

\* Sold with the transaction log replaced by the new record, not appended to
Sold_rewrites_log(portfolio, normalized_id, crypto_amount, price) ==
    [usd_balance |-> portfolio.usd_balance + crypto_amount * price,
     holdings |-> Remove(portfolio.holdings, normalized_id),
     transactions |-> <<Transaction("Sell", normalized_id, crypto_amount, price,
                                    crypto_amount * price)>>]

\* lines 230-254: the portfolio after a sell at the fetched price
Sold(portfolio, normalized_id, crypto_amount, price) ==
    LET usd_value == crypto_amount * price
        holdings == portfolio.holdings
        left == holdings[normalized_id] - crypto_amount
    IN
    [usd_balance |-> portfolio.usd_balance + usd_value,
     holdings |-> IF normalized_id \in DOMAIN holdings
                  THEN IF left < Epsilon
                       THEN Remove(holdings, normalized_id)
                       ELSE Insert(holdings, normalized_id, left)
                  ELSE holdings,
     transactions |-> Append(portfolio.transactions,
                             Transaction("Sell", normalized_id, crypto_amount, price,
                                         usd_value))]

\* sell_cryptocurrency, lines 227-264: the price fetch returned
sell_cryptocurrency_resume(slot, saved) ==
    LET call == calls[slot] IN
    /\ call.op = "sell"
    /\ call.response # Pending
    /\ calls' = [calls EXCEPT ![slot] = Idle]
    /\ sent' = <<>>
    /\ IF call.response = PriceErr
       THEN /\ reply' = Reply("sell", call.user_id, call.coin_id, call.amount,
                              "PriceFetchFailed", <<>>)
            /\ UNCHANGED stable
       ELSE LET price == call.response[2]
                portfolios == [call.portfolios EXCEPT ![call.user_id] =
                                  Sold(@, call.normalized_id, call.amount, price)]
            IN /\ stable' \in Saved(stable, PortfoliosMem(portfolios), saved)
               /\ reply' = Reply("sell", call.user_id, call.coin_id, call.amount,
                                 IF saved = "Ok" THEN "Ok" ELSE "PersistFailed", <<>>)

\* get_portfolio_value, lines 274-286: from the call to the await of the
\* first holding's price fetch; with no portfolio, or no holding, it
\* returns at once.  The portfolio found stays in the suspended call.
get_portfolio_value(slot, user_id) ==
    LET portfolios == load_portfolios(stable) IN
    /\ calls[slot] = Idle
    /\ sent' = <<>> /\ UNCHANGED stable
    /\ IF user_id \notin DOMAIN portfolios
       THEN /\ reply' = Reply("get_portfolio_value", user_id, <<>>, 0, "NotFound", <<>>)
            /\ UNCHANGED calls
       ELSE LET portfolio == portfolios[user_id] IN
            IF DOMAIN portfolio.holdings = {}
            THEN /\ reply' = Reply("get_portfolio_value", user_id, <<>>, 0, "Ok",
                                   <<portfolio.usd_balance>>)
                 /\ UNCHANGED calls
            ELSE /\ \E coin_id \in DOMAIN portfolio.holdings :
                      calls' = [calls EXCEPT ![slot] =
                         [op |-> "value", user_id |-> user_id,
                          portfolio |-> portfolio,
                          total_value |-> portfolio.usd_balance,
                          coin_id |-> coin_id,
                          todo |-> DOMAIN portfolio.holdings \ {coin_id},
                          response |-> Pending]]
                 /\ reply' = NoReply

\* get_portfolio_value_resume with a failed fetch returned to the caller as
\* the error of the whole call
get_portfolio_value_resume_fails(slot) ==
    LET call == calls[slot]
        ok == call.response # PriceErr
        total_value == IF ok
                       THEN call.total_value
                            + call.portfolio.holdings[call.coin_id] * call.response[2]
                       ELSE call.total_value
    IN
    /\ call.op = "value"
    /\ call.response # Pending
    /\ sent' = <<>> /\ UNCHANGED stable
    /\ IF call.todo # {} /\ ok
       THEN /\ \E coin_id \in call.todo :
                 calls' = [calls EXCEPT ![slot] =
                    [call EXCEPT !.total_value = total_value,
                                 !.coin_id = coin_id,
                                 !.todo = call.todo \ {coin_id},
                                 !.response = Pending]]
            /\ reply' = NoReply
       ELSE /\ calls' = [calls EXCEPT ![slot] = Idle]
            /\ reply' = IF ok
                        THEN Reply("get_portfolio_value", call.user_id, <<>>, 0, "Ok",
                                   <<total_value>>)
                        ELSE Reply("get_portfolio_value", call.user_id, <<>>, 0,
                                   "PriceFetchFailed", <<>>)

\* get_portfolio_value, lines 285-298: the price fetch of the current
\* holding returned; add its value when there is a price, then suspend at
\* the next holding's fetch or, after the last one, return the total
get_portfolio_value_resume(slot) ==
    LET call == calls[slot]
        ok == call.response # PriceErr
        total_value == IF ok
                       THEN call.total_value
                            + call.portfolio.holdings[call.coin_id] * call.response[2]
                       ELSE call.total_value
    IN
    /\ call.op = "value"
    /\ call.response # Pending
    /\ sent' = <<>> /\ UNCHANGED stable
    /\ IF call.todo # {}
       THEN /\ \E coin_id \in call.todo :
                 calls' = [calls EXCEPT ![slot] =
                    [call EXCEPT !.total_value = total_value,
                                 !.coin_id = coin_id,
                                 !.todo = call.todo \ {coin_id},
                                 !.response = Pending]]
            /\ reply' = NoReply
       ELSE /\ calls' = [calls EXCEPT ![slot] = Idle]
            /\ reply' = Reply("get_portfolio_value", call.user_id, <<>>, 0, "Ok",
                              <<total_value>>)

----------------------------------------------------------------------------
(* alerts.rs: the alert registry and the sweep *)

\* Alert { user, coin, target_price }
Alert(user, coin, target_price) ==
    [user |-> user, coin |-> coin, target_price |-> target_price]

\* PriceHistory { last_price }
PriceHistory(last_price) == [last_price |-> last_price]

\* format!("{}_{}", user, coin), line 115
AlertKey(user, coin) == user \o <<"_">> \o coin

\* init, lines 58-65: the save's error is dropped
AfterInit == {AlertsMem(EmptyMap, EmptyMap), Undecodable}

\* set_alert, lines 113-131: no await, one step
set_alert(user, coin, target_price, saved) ==
    LET alerts == load_alerts(stable)
        key == AlertKey(user, coin)
        inserted == Insert(alerts, key, Alert(user, coin, target_price))
        prices == load_price_history(stable)
    IN
    /\ Cardinality(DOMAIN inserted) <= MaxAlerts
    /\ stable' \in Saved(stable, AlertsMem(inserted, prices), saved)
    /\ reply' = Reply("set_alert", user, coin, target_price,
                      IF saved = "Ok" THEN "Ok" ELSE "PersistFailed", <<>>)
    /\ sent' = <<>> /\ UNCHANGED calls

\* get_alerts, lines 137-140: a query
get_alerts ==
    /\ reply' = Reply("get_alerts", <<>>, <<>>, 0, "Ok", <<load_alerts(stable)>>)
    /\ sent' = <<>> /\ UNCHANGED <<stable, calls>>

\* get_price_history, lines 90-93: a query
get_price_history ==
    /\ reply' = Reply("get_price_history", <<>>, <<>>, 0, "Ok",
                      <<load_price_history(stable)>>)
    /\ sent' = <<>> /\ UNCHANGED <<stable, calls>>

\* check_alerts, lines 155-162: the id the sweep fetches and records under
alert_coin_id(coin) ==
    LET lower == to_lowercase(coin) IN
    CASE lower = Str_btc -> Str_bitcoin
      [] lower = Str_eth -> Str_ethereum
      [] lower = Str_icp -> Str_internet_computer
      [] lower = Str_sol -> Str_solana
      [] OTHER -> coin

\* check_alerts, lines 144-166: load, and suspend at the price fetch of the
\* first alert the map's iterator yields; with no alert, return at once
check_alerts(slot) ==
    LET alerts == load_alerts(stable)
        price_history == load_price_history(stable)
    IN
    /\ calls[slot] = Idle
    /\ sent' = <<>> /\ UNCHANGED stable
    /\ IF DOMAIN alerts = {}
       THEN /\ reply' = Reply("check_alerts", <<>>, <<>>, 0, "NothingToSave", <<>>)
            /\ UNCHANGED calls
       ELSE /\ \E key \in DOMAIN alerts :
                 calls' = [calls EXCEPT ![slot] =
                    [op |-> "check_alerts", alerts |-> alerts,
                     price_history |-> price_history, updated |-> FALSE,
                     key |-> key, todo |-> DOMAIN alerts \ {key},
                     response |-> Pending]]
            /\ reply' = NoReply

\* DirectionMessage with an unchanged price counted as a gain
DirectionMessage_gain_on_equal(prev_price, current_price) ==
    IF current_price >= prev_price THEN "gained"
    ELSE IF current_price < prev_price THEN "lost"
    ELSE "no_change"

\* lines 178-193: the direction message
DirectionMessage(prev_price, current_price) ==
    IF current_price > prev_price THEN "gained"
    ELSE IF current_price < prev_price THEN "lost"
    ELSE "no_change"

\* TargetMessage with the comparisons of the previous price not strict
TargetMessage_refires(prev_price, current_price, target_price) ==
    IF prev_price <= target_price /\ current_price >= target_price
    THEN Some("reached")
    ELSE IF prev_price >= target_price /\ current_price <= target_price
    THEN Some("dropped")
    ELSE None

\* TargetMessage with both comparisons of the current price strict
TargetMessage_strict(prev_price, current_price, target_price) ==
    IF prev_price < target_price /\ current_price > target_price
    THEN Some("reached")
    ELSE IF prev_price > target_price /\ current_price < target_price
    THEN Some("dropped")
    ELSE None

\* lines 196-208: the target message, None when no target is reached
TargetMessage(prev_price, current_price, target_price) ==
    IF prev_price < target_price /\ current_price >= target_price
    THEN Some("reached")
    ELSE IF prev_price > target_price /\ current_price <= target_price
    THEN Some("dropped")
    ELSE None

\* a message as send_openchat_message gets it: the user and the text, of
\* which the model keeps the kind and the coin it names
Message(alert, kind) == [user |-> alert.user, coin |-> alert.coin, kind |-> kind]

\* Sends with the direction message sent before the target message
Sends_direction_first(alert, prev_price, current_price) ==
    LET target_message == TargetMessage(prev_price, current_price, alert.target_price)
    IN <<Message(alert, DirectionMessage(prev_price, current_price))>>
       \o (IF target_message # None
           THEN <<Message(alert, target_message[1])>> ELSE <<>>)

\* lines 211-218: the target message first when there is one, then the
\* direction message
Sends(alert, prev_price, current_price) ==
    LET target_message == TargetMessage(prev_price, current_price, alert.target_price)
    IN (IF target_message # None
        THEN <<Message(alert, target_message[1])>> ELSE <<>>)
       \o <<Message(alert, DirectionMessage(prev_price, current_price))>>

\* check_alerts_resume with the sweep given up at the first failed fetch:
\* the alerts not yet evaluated are dropped
check_alerts_resume_gives_up(slot, saved) ==
    LET call == calls[slot]
        alert == call.alerts[call.key]
        coin_id == alert_coin_id(alert.coin)
        ok == call.response # PriceErr
        current_price == call.response[2]
        prev_price == IF coin_id \in DOMAIN call.price_history
                      THEN call.price_history[coin_id].last_price
                      ELSE current_price
        price_history == IF ok
                         THEN Insert(call.price_history, coin_id,
                                     PriceHistory(current_price))
                         ELSE call.price_history
        updated == call.updated \/ ok
    IN
    /\ call.op = "check_alerts"
    /\ call.response # Pending
    /\ sent' = IF ok THEN Sends(alert, prev_price, current_price) ELSE <<>>
    /\ IF call.todo # {} /\ ok
       THEN /\ \E key \in call.todo :
                 calls' = [calls EXCEPT ![slot] =
                    [call EXCEPT !.price_history = price_history,
                                 !.updated = updated,
                                 !.key = key, !.todo = call.todo \ {key},
                                 !.response = Pending]]
            /\ reply' = NoReply
            /\ UNCHANGED stable
       ELSE /\ calls' = [calls EXCEPT ![slot] = Idle]
            /\ IF updated
               THEN /\ stable' \in Saved(stable, AlertsMem(call.alerts, price_history),
                                        saved)
                    /\ reply' = Reply("check_alerts", <<>>, <<>>, 0,
                                      IF saved = "Ok" THEN "Saved" ELSE "PersistFailed",
                                      <<>>)
               ELSE /\ reply' = Reply("check_alerts", <<>>, <<>>, 0,
                                      "NothingToSave", <<>>)
                    /\ UNCHANGED stable

\* check_alerts_resume with the fetched price added to the price on record
\* instead of put in its place
check_alerts_resume_accumulates(slot, saved) ==
    LET call == calls[slot]
        alert == call.alerts[call.key]
        coin_id == alert_coin_id(alert.coin)
        ok == call.response # PriceErr
        current_price == call.response[2]
        prev_price == IF coin_id \in DOMAIN call.price_history
                      THEN call.price_history[coin_id].last_price
                      ELSE current_price
        price_history == IF ok
                         THEN Insert(call.price_history, coin_id,
                                     PriceHistory(IF coin_id \in DOMAIN call.price_history
                                                  THEN prev_price + current_price
                                                  ELSE current_price))
                         ELSE call.price_history
        updated == call.updated \/ ok
    IN
    /\ call.op = "check_alerts"
    /\ call.response # Pending
    /\ sent' = IF ok THEN Sends(alert, prev_price, current_price) ELSE <<>>
    /\ IF call.todo # {}
       THEN /\ \E key \in call.todo :
                 calls' = [calls EXCEPT ![slot] =
                    [call EXCEPT !.price_history = price_history,
                                 !.updated = updated,
                                 !.key = key, !.todo = call.todo \ {key},
                                 !.response = Pending]]
            /\ reply' = NoReply
            /\ UNCHANGED stable
       ELSE /\ calls' = [calls EXCEPT ![slot] = Idle]
            /\ IF updated
               THEN /\ stable' \in Saved(stable, AlertsMem(call.alerts, price_history),
                                        saved)
                    /\ reply' = Reply("check_alerts", <<>>, <<>>, 0,
                                      IF saved = "Ok" THEN "Saved" ELSE "PersistFailed",
                                      <<>>)
               ELSE /\ reply' = Reply("check_alerts", <<>>, <<>>, 0,
                                      "NothingToSave", <<>>)
                    /\ UNCHANGED stable

\* check_alerts_resume with the fetched price recorded only when a crossing
\* fired
check_alerts_resume_records_crossings(slot, saved) ==
    LET call == calls[slot]
        alert == call.alerts[call.key]
        coin_id == alert_coin_id(alert.coin)
        ok == call.response # PriceErr
        current_price == call.response[2]
        prev_price == IF coin_id \in DOMAIN call.price_history
                      THEN call.price_history[coin_id].last_price
                      ELSE current_price
        price_history == IF ok /\ TargetMessage(prev_price, current_price,
                                                     alert.target_price) # None
                         THEN Insert(call.price_history, coin_id,
                                     PriceHistory(current_price))
                         ELSE call.price_history
        updated == call.updated \/ ok
    IN
    /\ call.op = "check_alerts"
    /\ call.response # Pending
    /\ sent' = IF ok THEN Sends(alert, prev_price, current_price) ELSE <<>>
    /\ IF call.todo # {}
       THEN /\ \E key \in call.todo :
                 calls' = [calls EXCEPT ![slot] =
                    [call EXCEPT !.price_history = price_history,
                                 !.updated = updated,
                                 !.key = key, !.todo = call.todo \ {key},
                                 !.response = Pending]]
            /\ reply' = NoReply
            /\ UNCHANGED stable
       ELSE /\ calls' = [calls EXCEPT ![slot] = Idle]
            /\ IF updated
               THEN /\ stable' \in Saved(stable, AlertsMem(call.alerts, price_history),
                                        saved)
                    /\ reply' = Reply("check_alerts", <<>>, <<>>, 0,
                                      IF saved = "Ok" THEN "Saved" ELSE "PersistFailed",
                                      <<>>)
               ELSE /\ reply' = Reply("check_alerts", <<>>, <<>>, 0,
                                      "NothingToSave", <<>>)
                    /\ UNCHANGED stable

\* check_alerts, lines 166-237: the price fetch of the current alert
\* returned; evaluate it, then suspend at the next alert's fetch or, after
\* the last one, save and return
check_alerts_resume(slot, saved) ==
    LET call == calls[slot]
        alert == call.alerts[call.key]
        coin_id == alert_coin_id(alert.coin)
        ok == call.response # PriceErr
        current_price == call.response[2]
        prev_price == IF coin_id \in DOMAIN call.price_history
                      THEN call.price_history[coin_id].last_price
                      ELSE current_price
        price_history == IF ok
                         THEN Insert(call.price_history, coin_id,
                                     PriceHistory(current_price))
                         ELSE call.price_history
        updated == call.updated \/ ok
    IN
    /\ call.op = "check_alerts"
    /\ call.response # Pending
    /\ sent' = IF ok THEN Sends(alert, prev_price, current_price) ELSE <<>>
    /\ IF call.todo # {}
       THEN /\ \E key \in call.todo :
                 calls' = [calls EXCEPT ![slot] =
                    [call EXCEPT !.price_history = price_history,
                                 !.updated = updated,
                                 !.key = key, !.todo = call.todo \ {key},
                                 !.response = Pending]]
            /\ reply' = NoReply
            /\ UNCHANGED stable
       ELSE /\ calls' = [calls EXCEPT ![slot] = Idle]
            /\ IF updated
               THEN /\ stable' \in Saved(stable, AlertsMem(call.alerts, price_history),
                                        saved)
                    /\ reply' = Reply("check_alerts", <<>>, <<>>, 0,
                                      IF saved = "Ok" THEN "Saved" ELSE "PersistFailed",
                                      <<>>)
               ELSE /\ reply' = Reply("check_alerts", <<>>, <<>>, 0,
                                      "NothingToSave", <<>>)
                    /\ UNCHANGED stable

----------------------------------------------------------------------------
(* Specifications *)

Init ==
    /\ stable \in AfterInit
    /\ calls = [slot \in Slots |-> Idle]
    /\ reply = NoReply
    /\ sent = <<>>

\* no update call is suspended
Quiet == \A slot \in Slots : calls[slot] = Idle

\* the ledger's handlers, one call at a time
LedgerNext ==
    \/ \E user \in Users, balance \in InitialBalances, saved \in SaveResults :
         Quiet /\ initialize_portfolio(user, balance, saved)
    \/ \E user \in Users : Quiet /\ get_portfolio(user)
    \/ \E user \in Users, coin \in LedgerCoins, amount \in UsdAmounts :
         Quiet /\ buy_cryptocurrency(1, user, coin, amount)
    \/ \E saved \in SaveResults : buy_cryptocurrency_resume(1, saved)
    \/ \E user \in Users, coin \in LedgerCoins, amount \in CryptoAmounts :
         Quiet /\ sell_cryptocurrency(1, user, coin, amount)
    \/ \E saved \in SaveResults : sell_cryptocurrency_resume(1, saved)
    \/ \E fetched \in FetchResults : http_response(1, fetched)

\* the alert registry's handlers, one call at a time
AlertsNext ==
    \/ \E user \in Users, coin \in AlertCoins, target \in Targets,
          saved \in SaveResults :
         Quiet /\ set_alert(user, coin, target, saved)
    \/ Quiet /\ get_alerts
    \/ Quiet /\ get_price_history
    \/ Quiet /\ check_alerts(1)
    \/ \E saved \in SaveResults : check_alerts_resume(1, saved)

\* the ledger alone, its calls run one at a time
LedgerSpec == Init /\ [][LedgerNext]_vars

\* the ledger with its valuation, its calls run one at a time
LedgerValueNext ==
    \/ LedgerNext
    \/ \E user \in Users : Quiet /\ get_portfolio_value(1, user)
    \/ get_portfolio_value_resume(1)

LedgerValueSpec == Init /\ [][LedgerValueNext]_vars

\* the whole canister, its calls run one at a time
Next == LedgerNext \/ AlertsNext

Spec == Init /\ [][Next]_vars

\* the alert registry and the sweep alone, their calls run one at a time
AlertsAloneNext ==
    \/ AlertsNext
    \/ \E fetched \in FetchResults : http_response(1, fetched)

AlertsSpec == Init /\ [][AlertsAloneNext]_vars

\* set_alert and get_alerts alone, run one at a time, for any users and
\* coin identifiers
RegistryNext ==
    \/ \E user \in KeyUsers, coin \in KeyCoins, target \in Targets,
          saved \in SaveResults :
         set_alert(user, coin, target, saved)
    \/ get_alerts

RegistrySpec == Init /\ [][RegistryNext]_vars

\* the slot a new call takes: the first one free
FreeSlot(slot) ==
    /\ calls[slot] = Idle
    /\ \A lower \in Slots : lower < slot => calls[lower] # Idle

\* the trades recorded and the trades under way stay within the bound
Room ==
    Recorded(load_portfolios(stable))
    + Cardinality({slot \in Slots : calls[slot] # Idle}) < MaxTx

\* the ledger's handlers as the canister runs them: a call is taken up
\* whenever no message is executing, that is also while other calls are
\* suspended at their price fetch
LedgerOverlapNext ==
    \/ \E user \in Users, balance \in InitialBalances, saved \in SaveResults :
         initialize_portfolio(user, balance, saved)
    \/ \E user \in Users : get_portfolio(user)
    \/ \E slot \in Slots, user \in Users, coin \in LedgerCoins, amount \in UsdAmounts :
         FreeSlot(slot) /\ Room /\ buy_cryptocurrency(slot, user, coin, amount)
    \/ \E slot \in Slots, saved \in SaveResults : buy_cryptocurrency_resume(slot, saved)
    \/ \E slot \in Slots, user \in Users, coin \in LedgerCoins, amount \in CryptoAmounts :
         FreeSlot(slot) /\ Room /\ sell_cryptocurrency(slot, user, coin, amount)
    \/ \E slot \in Slots, saved \in SaveResults : sell_cryptocurrency_resume(slot, saved)
    \/ \E slot \in Slots, fetched \in FetchResults : http_response(slot, fetched)

\* the ledger alone, its calls overlapping at their price fetches
LedgerOverlapSpec == Init /\ [][LedgerOverlapNext]_vars

\* what get_crypto_price returns on success when the quotient amount_usd /
\* price is rounded: a price that divides no amount among them
RoundingPrices == Prices \cup {3}

\* the ledger's handlers, one call at a time, every price fetched
LedgerRoundingNext ==
    \/ \E user \in Users, balance \in InitialBalances, saved \in SaveResults :
         Quiet /\ initialize_portfolio(user, balance, saved)
    \/ \E user \in Users : Quiet /\ get_portfolio(user)
    \/ \E user \in Users, coin \in LedgerCoins, amount \in UsdAmounts :
         Quiet /\ buy_cryptocurrency(1, user, coin, amount)
    \/ \E saved \in SaveResults : buy_cryptocurrency_resume(1, saved)
    \/ \E user \in Users, coin \in LedgerCoins, amount \in CryptoAmounts :
         Quiet /\ sell_cryptocurrency(1, user, coin, amount)
    \/ \E saved \in SaveResults : sell_cryptocurrency_resume(1, saved)
    \/ \E fetched \in {PriceOk(p) : p \in RoundingPrices} \cup {PriceErr} :
         http_response(1, fetched)

\* the ledger alone, its calls run one at a time, its quotients rounded
LedgerRoundingSpec == Init /\ [][LedgerRoundingNext]_vars

\* the users who set alerts, and the assets they set them on, where sweeps
\* overlap
OverlapUsers == {<<"a">>}
OverlapCoins == {Str_btc}

\* the alert registry and the sweep as the canister runs them: a call is
\* taken up whenever no message is executing, that is also while sweeps are
\* suspended at a price fetch
AlertsOverlapNext ==
    \/ \E user \in OverlapUsers, coin \in OverlapCoins, target \in Targets,
          saved \in SaveResults :
         set_alert(user, coin, target, saved)
    \/ get_alerts
    \/ get_price_history
    \/ \E slot \in Slots : FreeSlot(slot) /\ check_alerts(slot)
    \/ \E slot \in Slots, saved \in SaveResults : check_alerts_resume(slot, saved)
    \/ \E slot \in Slots, fetched \in FetchResults : http_response(slot, fetched)

AlertsOverlapSpec == Init /\ [][AlertsOverlapNext]_vars

----------------------------------------------------------------------------
(* What the claims speak of *)

\* the portfolios get_portfolio reads
Stored == load_portfolios(stable)

\* a suspended call of the given kind returns in this step
Returns(slot, ops) == calls[slot].op \in ops /\ calls'[slot] = Idle

\* the canonical market identifier of each identifier the ledger is called
\* with, written out
CanonicalId(coin) ==
    CASE coin = <<"B", "T", "C">> -> Str_bitcoin
      [] coin = <<"X", "y">> -> <<"x", "y">>

----------------------------------------------------------------------------
(* C1 *)

\* C1: in every reachable state every stored portfolio has usd_balance >= 0.
\* The code refutes it: initialize_portfolio stores whatever initial balance
\* the caller supplies.
C1_BalanceNonNegative ==
    \A user \in DOMAIN Stored : Stored[user].usd_balance >= 0

----------------------------------------------------------------------------
(* C2 *)

\* C2: in every reachable state every entry of every portfolio's holdings
\* is strictly greater than epsilon.  The code refutes it: a buy inserts
\* amount_usd / price whatever its size, and a sell keeps a remainder that
\* equals epsilon.
C2_HoldingsAboveEpsilon ==
    \A user \in DOMAIN Stored :
        \A id \in DOMAIN Stored[user].holdings :
            Stored[user].holdings[id] > Epsilon

----------------------------------------------------------------------------
(* C3 *)

\* what C3 says of a buy of amount_usd of the asset named coin at the
\* fetched price, from the portfolio before to the portfolio after
BuyPostcondition(before, after, coin, amount_usd, price) ==
    LET id == CanonicalId(coin)
        old == IF id \in DOMAIN before.holdings THEN before.holdings[id] ELSE 0
    IN
    /\ after.usd_balance = before.usd_balance - amount_usd
    /\ DOMAIN after.holdings = DOMAIN before.holdings \cup {id}
    /\ (after.holdings[id] - old) * price = amount_usd
    /\ \A other \in DOMAIN before.holdings \ {id} :
           after.holdings[other] = before.holdings[other]
    /\ Len(after.transactions) = Len(before.transactions) + 1
    /\ SubSeq(after.transactions, 1, Len(before.transactions)) = before.transactions
    /\ LET last == after.transactions[Len(after.transactions)] IN
       /\ last.transaction_type = "Buy"
       /\ last.coin_id = id
       /\ last.price = price
       /\ last.total_value = amount_usd

\* C3: every buy that passed its checks and whose price fetch succeeded
\* leaves the stored portfolio debited by amount_usd, the canonical holding
\* credited by amount_usd / price, every other holding as it was, and one
\* Buy transaction appended.  The code refutes it when stable_save fails
\* (C9): nothing of the buy is stored.
C3_BuyPostcondition ==
    [][\A slot \in Slots :
          (Returns(slot, {"buy"}) /\ calls[slot].response \in {PriceOk(p) : p \in Prices})
          => LET call == calls[slot] IN
             /\ call.user_id \in DOMAIN Stored'
             /\ BuyPostcondition(Stored[call.user_id], Stored'[call.user_id],
                                 call.coin_id, call.amount, call.response[2])]_vars

\* the part of C3 the code keeps: the same, of the buys that report success
C3_BuyPostconditionWhenSaved ==
    [][\A slot \in Slots :
          (Returns(slot, {"buy"}) /\ reply'.result = "Ok")
          => LET call == calls[slot] IN
             /\ call.response \in {PriceOk(p) : p \in Prices}
             /\ call.user_id \in DOMAIN Stored'
             /\ BuyPostcondition(Stored[call.user_id], Stored'[call.user_id],
                                 call.coin_id, call.amount, call.response[2])]_vars

----------------------------------------------------------------------------
(* C4 *)

\* what C4 says of a sell of crypto_amount of the asset named coin at the
\* fetched price
SellPostcondition(before, after, coin, crypto_amount, price) ==
    LET id == CanonicalId(coin)
        left == before.holdings[id] - crypto_amount
    IN
    /\ after.usd_balance = before.usd_balance + crypto_amount * price
    /\ IF left < Epsilon
       THEN DOMAIN after.holdings = DOMAIN before.holdings \ {id}
       ELSE /\ DOMAIN after.holdings = DOMAIN before.holdings
            /\ after.holdings[id] = left
    /\ \A other \in DOMAIN before.holdings \ {id} :
           after.holdings[other] = before.holdings[other]
    /\ Len(after.transactions) = Len(before.transactions) + 1
    /\ SubSeq(after.transactions, 1, Len(before.transactions)) = before.transactions
    /\ LET last == after.transactions[Len(after.transactions)] IN
       /\ last.transaction_type = "Sell"
       /\ last.coin_id = id
       /\ last.amount = crypto_amount
       /\ last.price = price
       /\ last.total_value = crypto_amount * price

\* C4: every sell that passed its checks and whose price fetch succeeded
\* leaves the stored portfolio credited by crypto_amount * price, the
\* holding reduced by crypto_amount and removed below epsilon, every other
\* holding as it was, and one Sell transaction appended.  The code refutes
\* it when stable_save fails (C9): nothing of the sell is stored.
C4_SellPostcondition ==
    [][\A slot \in Slots :
          (Returns(slot, {"sell"}) /\ calls[slot].response \in {PriceOk(p) : p \in Prices})
          => LET call == calls[slot] IN
             /\ call.user_id \in DOMAIN Stored'
             /\ SellPostcondition(Stored[call.user_id], Stored'[call.user_id],
                                  call.coin_id, call.amount, call.response[2])]_vars

\* the part of C4 the code keeps: the same, of the sells that report success
C4_SellPostconditionWhenSaved ==
    [][\A slot \in Slots :
          (Returns(slot, {"sell"}) /\ reply'.result = "Ok")
          => LET call == calls[slot] IN
             /\ call.response \in {PriceOk(p) : p \in Prices}
             /\ call.user_id \in DOMAIN Stored'
             /\ SellPostcondition(Stored[call.user_id], Stored'[call.user_id],
                                  call.coin_id, call.amount, call.response[2])]_vars

----------------------------------------------------------------------------
(* C5 *)

\* C5: a buy or sell whose price fetch failed returns the price-fetch error
\* and stores nothing: stable memory is what it was, and the portfolios are
\* those the call loaded.
C5_FailedFetchChangesNothing ==
    [][\A slot \in Slots :
          (Returns(slot, {"buy", "sell"}) /\ calls[slot].response = PriceErr)
          => /\ reply'.op = calls[slot].op
             /\ reply'.user = calls[slot].user_id
             /\ reply'.result = "PriceFetchFailed"
             /\ stable' = stable
             /\ Stored' = calls[slot].portfolios]_vars

\* a buy or sell has just returned the price-fetch error to a user whose
\* portfolio holds an earlier transaction
C5_Witness ==
    /\ reply.op \in {"buy", "sell"}
    /\ reply.result = "PriceFetchFailed"
    /\ reply.user \in DOMAIN Stored
    /\ Stored[reply.user].transactions # <<>>

----------------------------------------------------------------------------
(* C6 *)

\* the error C6 names for a buy, "None" for a buy it does not reject
BuyError(portfolios, user, amount) ==
    IF amount <= 0 THEN "InvalidAmount"
    ELSE IF user \notin DOMAIN portfolios THEN "NotFound"
    ELSE IF portfolios[user].usd_balance < amount THEN "InsufficientFunds"
    ELSE "None"

\* the error C6 names for a sell, "None" for a sell it does not reject
SellError(portfolios, user, coin, amount) ==
    LET id == CanonicalId(coin)
        held == IF id \in DOMAIN portfolios[user].holdings
                THEN portfolios[user].holdings[id] ELSE 0
    IN
    IF amount <= 0 THEN "InvalidAmount"
    ELSE IF user \notin DOMAIN portfolios THEN "NotFound"
    ELSE IF held < amount THEN "InsufficientHoldings"
    ELSE "None"

\* C6: a buy or sell that fails a check before the price fetch returns that
\* check's error at once, issues no outcall and stores nothing; only a call
\* that passes every check is suspended at a price fetch.
C6_RejectedBeforeFetch ==
    [][Quiet =>
         /\ reply'.op = "buy" =>
               /\ reply'.result # "None"
               /\ reply'.result = BuyError(Stored, reply'.user, reply'.amount)
               /\ stable' = stable
               /\ calls' = calls
         /\ reply'.op = "sell" =>
               /\ reply'.result # "None"
               /\ reply'.result =
                      SellError(Stored, reply'.user, reply'.coin, reply'.amount)
               /\ stable' = stable
               /\ calls' = calls
         /\ \A slot \in Slots :
               /\ calls'[slot].op = "buy" =>
                      BuyError(Stored, calls'[slot].user_id, calls'[slot].amount) = "None"
               /\ calls'[slot].op = "sell" =>
                      SellError(Stored, calls'[slot].user_id, calls'[slot].coin_id,
                                calls'[slot].amount) = "None"]_vars

\* a sell has just been rejected for a user who holds some of the coin, but
\* less than the amount
C6_Witness ==
    /\ reply.op = "sell"
    /\ reply.result = "InsufficientHoldings"
    /\ reply.user \in DOMAIN Stored
    /\ CanonicalId(reply.coin) \in DOMAIN Stored[reply.user].holdings

----------------------------------------------------------------------------
(* C7 *)

\* the portfolio C7 says initialize_portfolio creates
Created(initial_balance) ==
    [usd_balance |-> IF initial_balance = None THEN DefaultBalance
                     ELSE initial_balance[1],
     holdings |-> EmptyMap,
     transactions |-> <<>>]

\* the portfolios of all users but one are what they were
OthersUnchanged(user) ==
    /\ DOMAIN Stored' \ {user} = DOMAIN Stored \ {user}
    /\ \A other \in DOMAIN Stored \ {user} : Stored'[other] = Stored[other]

----------------------------------------------------------------------------
(* C8 *)

\* C8: across every step the stored log of every portfolio keeps the log
\* before the step as a prefix, and is one record longer exactly when the
\* step is a buy or sell of that user returning success.
C8_LogAppendOnly ==
    [][\A user \in DOMAIN Stored :
          /\ user \in DOMAIN Stored'
          /\ LET old == Stored[user].transactions
                 new == Stored'[user].transactions
                 traded == \E slot \in Slots :
                              /\ Returns(slot, {"buy", "sell"})
                              /\ calls[slot].user_id = user
                              /\ reply'.result = "Ok"
             IN /\ Len(new) = Len(old) + (IF traded THEN 1 ELSE 0)
                /\ SubSeq(new, 1, Len(old)) = old]_vars

\* a sell has just succeeded for a user whose log held a record before it
C8_Witness ==
    /\ reply.op = "sell"
    /\ reply.result = "Ok"
    /\ Len(Stored[reply.user].transactions) >= 2

----------------------------------------------------------------------------
(* C9 *)

\* C9: a buy or sell whose save failed reports an error other than success,
\* and get_portfolio then returns the portfolio with the trade applied.  The
\* code refutes it: the trade was applied to the call's own copy of the
\* portfolios, which is dropped; stable memory holds the portfolio as it was.
C9_FailedSaveKeepsTrade ==
    [][\A slot \in Slots :
          (Returns(slot, {"buy", "sell"}) /\ reply'.result = "PersistFailed")
          => LET call == calls[slot] IN
             /\ reply'.result # "Ok"
             /\ call.user_id \in DOMAIN Stored'
             /\ IF call.op = "buy"
                THEN BuyPostcondition(Stored[call.user_id], Stored'[call.user_id],
                                      call.coin_id, call.amount, call.response[2])
                ELSE SellPostcondition(Stored[call.user_id], Stored'[call.user_id],
                                       call.coin_id, call.amount, call.response[2])]_vars

----------------------------------------------------------------------------
(* C10 *)

\* the step belongs to a handler of the alert registry
AlertStep ==
    \/ reply'.op \in {"set_alert", "check_alerts"}
    \/ \E slot \in Slots :
          calls[slot].op = "check_alerts" \/ calls'[slot].op = "check_alerts"

\* the step belongs to a handler of the ledger that writes
LedgerStep ==
    \/ reply'.op \in {"initialize_portfolio", "buy", "sell"}
    \/ \E slot \in Slots :
          calls[slot].op \in {"buy", "sell"} \/ calls'[slot].op \in {"buy", "sell"}

\* C10: no step of set_alert or of the sweep changes what get_portfolio
\* returns for any user, and no step of initialize, buy or sell changes what
\* get_alerts and get_price_history return.  The code refutes it: both
\* modules save their tuple at the start of the one stable memory, and
\* neither can restore the other's.
C10_ComponentsApart ==
    [][/\ AlertStep => Stored' = Stored
       /\ LedgerStep => /\ load_alerts(stable') = load_alerts(stable)
                        /\ load_price_history(stable') = load_price_history(stable)]_vars

----------------------------------------------------------------------------
(* C11 *)

\* the log after holds every record of the log before, in order, and one
\* more record
OneRecordMore(before, after) ==
    /\ Len(after) = Len(before) + 1
    /\ \E i \in 1..Len(after) :
          before = SubSeq(after, 1, i - 1) \o SubSeq(after, i + 1, Len(after))

\* C11: buys and sells of one user that overlap at the price fetch take
\* effect one after the other: each one that reports success finds, in the
\* portfolio stored when it completes, what it spends (no double spending),
\* applies its balance change to that portfolio, and adds its record to that
\* portfolio's log without dropping a record.  The code refutes it: each
\* call saves the copy it loaded before its fetch.
C11_SameUserSerialized ==
    [][\A slot \in Slots :
          (Returns(slot, {"buy", "sell"}) /\ reply'.result = "Ok")
          => LET call == calls[slot]
                 user == call.user_id
             IN
             /\ user \in DOMAIN Stored /\ user \in DOMAIN Stored'
             /\ OneRecordMore(Stored[user].transactions, Stored'[user].transactions)
             /\ IF call.op = "buy"
                THEN /\ Stored[user].usd_balance >= call.amount
                     /\ Stored'[user].usd_balance =
                            Stored[user].usd_balance - call.amount
                ELSE /\ GetOr(Stored[user].holdings, CanonicalId(call.coin_id), 0)
                            >= call.amount
                     /\ Stored'[user].usd_balance =
                            Stored[user].usd_balance + call.amount * call.response[2]]_vars

----------------------------------------------------------------------------
(* C12 *)

\* C12: a buy or sell of one user that completes, whatever ran during its
\* price fetch, leaves the stored portfolio of every other user as it is;
\* and so does initialize_portfolio.  The code refutes it: the completing
\* call saves every portfolio as it was when the call began.
C12_OtherUsersUntouched ==
    [][/\ \A slot \in Slots :
             Returns(slot, {"buy", "sell"})
             => \A other \in DOMAIN Stored \ {calls[slot].user_id} :
                   other \in DOMAIN Stored' /\ Stored'[other] = Stored[other]
       /\ reply'.op = "initialize_portfolio"
             => \A other \in DOMAIN Stored \ {reply'.user} :
                   other \in DOMAIN Stored' /\ Stored'[other] = Stored[other]]_vars

----------------------------------------------------------------------------
(* C13 *)

\* the alerts get_alerts returns, without their keys
AlertsHeld(mem) == {load_alerts(mem)[key] : key \in DOMAIN load_alerts(mem)}

\* C13: a set_alert that reports success leaves exactly one alert for its
\* (user, coin) pair, with the target it was given, and leaves the alert of
\* every other pair as it was; get_alerts holds one entry for each pair.
\* The code refutes it: the key "user_coin" is the same for ("a_b", "c") and
\* ("a", "b_c").
C13_OneAlertPerPair ==
    [][(reply'.op = "set_alert" /\ reply'.result = "Ok")
       => /\ AlertsHeld(stable') =
                {alert \in AlertsHeld(stable) :
                    <<alert.user, alert.coin>> # <<reply'.user, reply'.coin>>}
                \cup {Alert(reply'.user, reply'.coin, reply'.amount)}
          /\ Cardinality(DOMAIN load_alerts(stable')) =
                Cardinality(AlertsHeld(stable'))]_vars

----------------------------------------------------------------------------
(* C14 *)

\* the sweep in the slot evaluates its current alert in this step, the
\* price fetch having succeeded
Evaluates(slot) ==
    /\ calls[slot].op = "check_alerts"
    /\ calls[slot].response \in {PriceOk(p) : p \in Prices}
    /\ calls'[slot] # calls[slot]

\* the alert a suspended sweep is at
AlertAt(call) == call.alerts[call.key]

\* the last price the sweep's registry holds for the asset of its current
\* alert, the fetched price when it holds none
Previous(call) ==
    LET id == alert_coin_id(AlertAt(call).coin) IN
    IF id \in DOMAIN call.price_history
    THEN call.price_history[id].last_price
    ELSE call.response[2]

\* the kinds of the messages sent in a step, in order
Kinds(messages) == [i \in DOMAIN messages |-> messages[i].kind]

\* the crossing notifications among the messages
Crossings(messages) ==
    {i \in DOMAIN messages : messages[i].kind \in {"reached", "dropped"}}

----------------------------------------------------------------------------
(* C15 *)

\* the asset of the sweep's current alert was last recorded, by the sweeps
\* before this one and by this one so far, at the alert's target
SatOnTarget(call) ==
    LET id == alert_coin_id(AlertAt(call).coin)
        target == AlertAt(call).target_price
    IN /\ id \in DOMAIN load_price_history(stable)
       /\ load_price_history(stable)[id].last_price = target
       /\ id \in DOMAIN call.price_history
       /\ call.price_history[id].last_price = target

\* C15: a sweep that fetches a price equal to the target of an alert whose
\* asset was already recorded at that target sends no crossing
\* notification for it, sweep after sweep.
C15_NoRefireOnTarget ==
    [][\A slot \in Slots :
          (/\ Evaluates(slot)
           /\ SatOnTarget(calls[slot])
           /\ calls[slot].response[2] = AlertAt(calls[slot]).target_price)
          => /\ Crossings(sent') = {}
             /\ Kinds(sent') = <<"no_change">>]_vars

\* a sweep has just found the price of an asset where the sweep before had
\* saved it, on the target of the alert, and goes on to its next alert
C15_Witness ==
    /\ calls[1].op = "check_alerts"
    /\ Kinds(sent) = <<"no_change">>
    /\ \E key \in DOMAIN calls[1].alerts :
          LET alert == calls[1].alerts[key]
              id == alert_coin_id(alert.coin)
          IN /\ alert.user = sent[1].user /\ alert.coin = sent[1].coin
             /\ id \in DOMAIN load_price_history(stable)
             /\ load_price_history(stable)[id].last_price = alert.target_price
             /\ calls[1].price_history[id].last_price = alert.target_price

----------------------------------------------------------------------------
(* C16 *)

\* the direction messages among the messages
Directions(messages) ==
    {i \in DOMAIN messages : messages[i].kind \in {"gained", "lost", "no_change"}}

\* C16: an alert evaluated on a fetched price sends exactly one direction
\* message: gained when current > previous, lost when current < previous,
\* unchanged otherwise; on the first observation of the asset the message
\* is unchanged and it is the only message, whatever the target.
C16_OneDirectionMessage ==
    [][\A slot \in Slots : Evaluates(slot) =>
          LET call == calls[slot]
              previous == Previous(call)
              current == call.response[2]
              first == alert_coin_id(AlertAt(call).coin) \notin DOMAIN call.price_history
          IN /\ Cardinality(Directions(sent')) = 1
             /\ \A i \in Directions(sent') :
                   /\ sent'[i].user = AlertAt(call).user
                   /\ sent'[i].coin = AlertAt(call).coin
                   /\ sent'[i].kind = "gained" <=> current > previous
                   /\ sent'[i].kind = "lost" <=> current < previous
                   /\ sent'[i].kind = "no_change" <=> current = previous
             /\ first => Kinds(sent') = <<"no_change">>]_vars

\* a sweep has just made the first observation of an asset, at a price off
\* the target of the alert, and goes on to its next alert
C16_Witness ==
    /\ calls[1].op = "check_alerts"
    /\ Kinds(sent) = <<"no_change">>
    /\ load_price_history(stable) = EmptyMap
    /\ \E key \in DOMAIN calls[1].alerts :
          LET alert == calls[1].alerts[key]
              id == alert_coin_id(alert.coin)
          IN /\ alert.user = sent[1].user /\ alert.coin = sent[1].coin
             /\ DOMAIN calls[1].price_history = {id}
             /\ calls[1].price_history[id].last_price > alert.target_price

----------------------------------------------------------------------------
(* C17 *)

\* C17: the messages an evaluated alert sends go to the alert's user and
\* end with the direction message, sent whether or not a crossing fired;
\* the crossing notification, when there is one, is the one message before
\* it.
C17_CrossingBeforeDirection ==
    [][\A slot \in Slots : Evaluates(slot) =>
          LET n == Len(sent') IN
          /\ n \in {1, 2}
          /\ n \in Directions(sent')
          /\ \A i \in 1..n : sent'[i].user = AlertAt(calls[slot]).user
          /\ Crossings(sent') = 1..(n - 1)]_vars

\* an upward crossing and a gain have just been sent, in that order
C17_Witness ==
    Kinds(sent) = <<"reached", "gained">>

----------------------------------------------------------------------------
(* C18 *)

\* C18: the id a sweep fetches the price of, and records it under, for the
\* alert it is at is the id normalize_coin_id gives for the alert's coin.
\* The code refutes it: the sweep's table has four of the ten aliases, and
\* an identifier it does not hold is used as it was given, not lower-cased.
C18_SameAliasTable ==
    \A slot \in Slots :
       calls[slot].op = "check_alerts"
       => alert_coin_id(AlertAt(calls[slot]).coin)
             = normalize_coin_id(AlertAt(calls[slot]).coin)

----------------------------------------------------------------------------
(* C19 *)

\* the sweep in the slot takes up the result of a failed price fetch in
\* this step
Skips(slot) ==
    /\ calls[slot].op = "check_alerts"
    /\ calls[slot].response = PriceErr
    /\ calls'[slot] # calls[slot]

\* C19: a sweep whose price fetch for an alert failed sends nothing for it
\* and records no price; it goes on with the alerts not yet evaluated, all
\* of them, and after the last one saves the prices the other alerts
\* recorded, if any.  A sweep returns only when no alert is left.
C19_FailedFetchSkipsOneAlert ==
    [][\A slot \in Slots :
          /\ Skips(slot) =>
                LET call == calls[slot] IN
                /\ sent' = <<>>
                /\ IF call.todo # {}
                   THEN /\ calls'[slot].op = "check_alerts"
                        /\ calls'[slot].alerts = call.alerts
                        /\ calls'[slot].price_history = call.price_history
                        /\ calls'[slot].key \in call.todo
                        /\ calls'[slot].todo = call.todo \ {calls'[slot].key}
                        /\ stable' = stable
                   ELSE /\ calls'[slot] = Idle
                        /\ load_price_history(stable') \in
                              {load_price_history(stable), call.price_history}
                        /\ ~call.updated => stable' = stable
          /\ Returns(slot, {"check_alerts"}) => calls[slot].todo = {}]_vars

\* a sweep over two alerts has skipped the first, whose fetch failed, with
\* prices on record, and is at the second
C19_Witness ==
    /\ calls[1].op = "check_alerts"
    /\ Cardinality(DOMAIN calls[1].alerts) = 2
    /\ calls[1].todo = {}
    /\ ~calls[1].updated
    /\ calls[1].price_history # EmptyMap
    /\ calls[1].price_history = load_price_history(stable)

----------------------------------------------------------------------------
(* C20 *)

\* the prices a sweep has observed when it evaluates its last alert: those
\* it held, and the one just fetched
Observed(call) ==
    IF call.response = PriceErr THEN call.price_history
    ELSE Insert(call.price_history, alert_coin_id(AlertAt(call).coin),
                PriceHistory(call.response[2]))

\* C20: when the save at the end of a sweep fails, the prices the sweep
\* observed are the previous prices of the next sweep.  The code refutes
\* it: the next sweep restores its prices from stable memory, which holds
\* those from before the sweep.
C20_FailedSaveKeepsPrices ==
    [][\A slot \in Slots :
          (Returns(slot, {"check_alerts"}) /\ reply'.result = "PersistFailed")
          => load_price_history(stable') = Observed(calls[slot])]_vars

----------------------------------------------------------------------------
(* C21 *)

\* C21: get_portfolio_value changes no stored state; for a user with no
\* portfolio it returns NotFound; for any other it starts from usd_balance,
\* fetches the price of every holding once, adds amount * price for each
\* fetch that succeeds and nothing for one that fails, and returns the sum
\* as a total, never an error.
C21_PartialValuation ==
    [][/\ reply'.op = "get_portfolio_value" => stable' = stable
       /\ (reply'.op = "get_portfolio_value" /\ Quiet) =>
             IF reply'.user \notin DOMAIN Stored
             THEN reply'.result = "NotFound"
             ELSE /\ Stored[reply'.user].holdings = EmptyMap
                  /\ reply'.result = "Ok"
                  /\ reply'.value = <<Stored[reply'.user].usd_balance>>
       /\ \A slot \in Slots :
             /\ (calls[slot] = Idle /\ calls'[slot].op = "value") =>
                   LET call == calls'[slot] IN
                   /\ stable' = stable
                   /\ call.user_id \in DOMAIN Stored
                   /\ call.portfolio = Stored[call.user_id]
                   /\ call.total_value = Stored[call.user_id].usd_balance
                   /\ call.coin_id \notin call.todo
                   /\ call.todo \cup {call.coin_id}
                         = DOMAIN Stored[call.user_id].holdings
             /\ (calls[slot].op = "value" /\ calls'[slot] # calls[slot]
                 /\ calls[slot].response # Pending) =>
                   LET call == calls[slot]
                       sum == call.total_value
                              + (IF call.response = PriceErr THEN 0
                                 ELSE call.portfolio.holdings[call.coin_id]
                                      * call.response[2])
                   IN
                   /\ stable' = stable
                   /\ IF call.todo = {}
                      THEN /\ calls'[slot] = Idle
                           /\ reply'.op = "get_portfolio_value"
                           /\ reply'.user = call.user_id
                           /\ reply'.result = "Ok"
                           /\ reply'.value = <<sum>>
                      ELSE /\ calls'[slot].op = "value"
                           /\ calls'[slot].portfolio = call.portfolio
                           /\ calls'[slot].total_value = sum
                           /\ calls'[slot].coin_id \in call.todo
                           /\ calls'[slot].todo = call.todo \ {calls'[slot].coin_id}]_vars

\* a total has just been returned for a portfolio of two holdings, above
\* the balance and below the value of both holdings at the lowest price:
\* one fetch succeeded and one failed
C21_Witness ==
    /\ reply.op = "get_portfolio_value"
    /\ reply.result = "Ok"
    /\ reply.user \in DOMAIN Stored
    /\ LET portfolio == Stored[reply.user] IN
       /\ Cardinality(DOMAIN portfolio.holdings) = 2
       /\ reply.value[1] > portfolio.usd_balance
       /\ \E coin_id \in DOMAIN portfolio.holdings :
             reply.value[1] = portfolio.usd_balance + portfolio.holdings[coin_id]

----------------------------------------------------------------------------
(* C22 *)

\* the registry of prices a sweep leaves after a step: the map it goes on
\* with or, at its end, the map it saved
RegistryAfter(slot) ==
    IF calls'[slot].op = "check_alerts"
    THEN calls'[slot].price_history
    ELSE load_price_history(stable')

\* what an alert would send on a fetched price, with the given registry
Outcome(history, alert, current) ==
    LET id == alert_coin_id(alert.coin) IN
    Sends(alert,
          IF id \in DOMAIN history THEN history[id].last_price ELSE current,
          current)

\* C22: recording for an asset the price already on record for it leaves
\* the registry as it was after the first recording, and with it what every
\* alert sends on any price fetched later.
C22_RecordTwiceIsOnce ==
    [][\A slot \in Slots :
          (/\ Evaluates(slot)
           /\ reply'.result # "PersistFailed"
           /\ LET id == alert_coin_id(AlertAt(calls[slot]).coin) IN
              /\ id \in DOMAIN calls[slot].price_history
              /\ calls[slot].price_history[id].last_price = calls[slot].response[2])
          => /\ RegistryAfter(slot) = calls[slot].price_history
             /\ \A key \in DOMAIN calls[slot].alerts, current \in Prices :
                   Outcome(RegistryAfter(slot), calls[slot].alerts[key], current)
                   = Outcome(calls[slot].price_history, calls[slot].alerts[key],
                             current)]_vars

\* a sweep has just recorded for an asset the price on record for it, off
\* the target of the alert, and goes on to its next alert
C22_Witness ==
    /\ calls[1].op = "check_alerts"
    /\ Kinds(sent) = <<"no_change">>
    /\ \E key \in DOMAIN calls[1].alerts :
          LET alert == calls[1].alerts[key]
              id == alert_coin_id(alert.coin)
          IN /\ alert.user = sent[1].user /\ alert.coin = sent[1].coin
             /\ id \in DOMAIN load_price_history(stable)
             /\ load_price_history(stable)[id] = calls[1].price_history[id]
             /\ calls[1].price_history[id].last_price # alert.target_price

----------------------------------------------------------------------------
(* C23 *)

\* the registry agrees with another on every asset but one
SameButFor(after, before, id) ==
    /\ DOMAIN after \ {id} = DOMAIN before \ {id}
    /\ \A other \in DOMAIN before \ {id} : after[other] = before[other]

----------------------------------------------------------------------------
(* C24 *)

\* C24: in a sweep, an alert on an asset whose last price was q when the
\* sweep began, and whose every fetch in the sweep so far and now returned
\* p, is sent a crossing notification when q < target <= p or q > target >=
\* p, wherever it comes in the sweep.  The code refutes it: the first alert
\* evaluated on the asset records p, and p is the previous price of the
\* alerts on that asset that come after it.
C24_EveryAlertSeesCrossing ==
    [][\A slot \in Slots : Evaluates(slot) =>
          LET call == calls[slot]
              id == alert_coin_id(AlertAt(call).coin)
              target == AlertAt(call).target_price
              p == call.response[2]
              began == load_price_history(stable)
          IN (/\ id \in DOMAIN began
              /\ id \in DOMAIN call.price_history
              /\ call.price_history[id].last_price \in {began[id].last_price, p}
              /\ \/ began[id].last_price < target /\ target <= p
                 \/ began[id].last_price > target /\ target >= p)
             => Crossings(sent') # {}]_vars

----------------------------------------------------------------------------
(* C25 *)

\* C25: a sweep that ends and saves leaves the alerts get_alerts returns as
\* they were, those set while it was suspended among them.  The code
\* refutes it: the sweep saves the alerts it loaded when it began.
C25_SweepKeepsAlerts ==
    [][\A slot \in Slots :
          (Returns(slot, {"check_alerts"}) /\ reply'.result = "Saved")
          => load_alerts(stable') = load_alerts(stable)]_vars

----------------------------------------------------------------------------
(* C26 *)

\* the sweep that has just returned saved its registry, and the last
\* thing it did was to notify this alert of a crossing
JustNotified(alert) ==
    /\ reply.op = "check_alerts"
    /\ reply.result = "Saved"
    /\ \E i \in Crossings(sent) :
          sent[i].user = alert.user /\ sent[i].coin = alert.coin

\* C26: one move of a price across a target is notified once over
\* overlapping sweeps: when a sweep has just notified an alert of a
\* crossing and recorded the price, another sweep that was suspended
\* meanwhile and fetched that same price sends no crossing notification
\* for that alert.  The code refutes it: the second sweep compares with
\* the price it loaded when it began.
C26_OneCrossingPerMove ==
    [][\A slot \in Slots : Evaluates(slot) =>
          LET call == calls[slot]
              id == alert_coin_id(AlertAt(call).coin)
              recorded == load_price_history(stable)
          IN (/\ JustNotified(AlertAt(call))
              /\ id \in DOMAIN recorded
              /\ recorded[id].last_price = call.response[2])
             => Crossings(sent') = {}]_vars

----------------------------------------------------------------------------
(* C27 *)

\* the sum of total_value over the transactions of one type
RECURSIVE TotalOf(_, _)
TotalOf(transactions, type) ==
    IF transactions = <<>> THEN 0
    ELSE LET last == transactions[Len(transactions)]
             rest == SubSeq(transactions, 1, Len(transactions) - 1)
         IN TotalOf(rest, type)
            + (IF last.transaction_type = type THEN last.total_value ELSE 0)

\* the balance a portfolio began with, if its balance reconciles with its log
InitialOf(portfolio) ==
    portfolio.usd_balance + TotalOf(portfolio.transactions, "Buy")
                          - TotalOf(portfolio.transactions, "Sell")

\* every transaction's total_value is its amount times its price
TotalsAreProducts(portfolio) ==
    \A i \in DOMAIN portfolio.transactions :
       LET tx == portfolio.transactions[i] IN tx.total_value = tx.amount * tx.price

\* every portfolio begins with an empty log, the balance it began with is
\* the same after every ledger operation
BalanceReconciles ==
    [][\A user \in DOMAIN Stored' :
          IF user \in DOMAIN Stored
          THEN InitialOf(Stored'[user]) = InitialOf(Stored[user])
          ELSE Stored'[user].transactions = <<>>]_vars

\* C27: the balance reconciles with the transaction log: each portfolio's
\* usd_balance is its initial balance minus the total_value of its Buy
\* transactions plus the total_value of its Sell transactions, and every
\* transaction's total_value is its amount times its price.  The code
\* refutes the second half: a Buy records the amount_usd asked for as
\* total_value and the rounded quotient amount_usd / price as amount.
C27_BalanceReconciles ==
    BalanceReconciles /\ [](\A user \in DOMAIN Stored : TotalsAreProducts(Stored[user]))

====
